---- MODULE Spec2Model ----
(***************************************************************************)
(* Model of src/app.py: a Streamlit script that reads a bank-statement CSV, *)
(* normalises its columns, categorises the rows by keyword/regex rules,    *)
(* lets the user edit categories and shows totals and summaries.           *)
(*                                                                         *)
(* Strings are sequences of one-character strings; the token "nbsp" stands *)
(* for U+00A0.                                                             *)
(***************************************************************************)
EXTENDS Integers, Sequences, FiniteSets, TLC

VARIABLES
    ar,     \* one call of apply_rules: [pc, df, rules, res]
    rd,     \* one run of the script's upload branch, lines 118-123
    cell,   \* one call of to_float or parse_date: [pc, x, res, ...]
    ec,     \* one call of ensure_columns: [pc, df, mapping, lenient, out]
    sm,     \* the summaries of one edited table: [pc, data_edit, ...]
    \* a browser session of the script:
    session,        \* the number of the session
    uploaded,       \* the file in the uploader (the script's variable file)
    session_state,  \* st.session_state, a dict
    edits,          \* the widget state of the data editor
    page,           \* what the last run of the script rendered
    added,          \* history: the inputs of the add clicks since the last clear
    saved           \* the rules file the user last downloaded

calls == <<ar, rd, cell, ec, sm>>
sess == <<session, uploaded, session_state, edits, page, added, saved>>
vars == <<ar, rd, cell, ec, sm, session, uploaded, session_state, edits, page, added, saved>>

None == [none |-> TRUE]      \* a missing value: None, NaN, NaT
NaN == <<"NaN">>             \* a missing cell of the uploaded table
Idle == [pc |-> "idle"]

\* the session variables of a behaviour that follows no session
SessionIdle ==
    /\ session = 0 /\ uploaded = Idle /\ session_state = <<>> /\ edits = Idle
    /\ page = Idle /\ added = <<>> /\ saved = Idle

(***************************************************************************)
(* Bounds of the model.                                                    *)
(***************************************************************************)
MaxRuleListLen == 2     \* longest rule list handed to apply_rules
MaxDescLen == 2         \* longest transaction description
MaxFileLines == 3       \* longest uploaded file, in lines
MaxCellLen == 3         \* longest amount cell, in characters
MaxRows == 2            \* most rows of a table given to ensure_columns
MaxEditRows == 3        \* most rows of an edited table that is summarised
MaxRules == 2           \* most rules a session holds
MaxSessions == 2        \* sessions followed

(***************************************************************************)
(* Python str helpers.                                                     *)
(***************************************************************************)
\* str.isspace() for one character
IsSpace(c) == c \in {" ", "\t", "nbsp"}

\* one character of str.lower()
LowerChar(c) ==
    CASE c = "A" -> "a" [] c = "B" -> "b" [] c = "C" -> "c" [] c = "D" -> "d"
      [] c = "P" -> "p" [] c = "O" -> "o" [] OTHER -> c

\* str.lower()
Lower(s) == [i \in DOMAIN s |-> LowerChar(s[i])]

RECURSIVE LStrip(_)
LStrip(s) == IF s # <<>> /\ IsSpace(Head(s)) THEN LStrip(Tail(s)) ELSE s

RECURSIVE RStrip(_)
RStrip(s) ==
    IF s # <<>> /\ IsSpace(s[Len(s)]) THEN RStrip(SubSeq(s, 1, Len(s) - 1)) ELSE s

\* str.strip()
Strip(s) == RStrip(LStrip(s))

\* sub in text
Contains(text, sub) ==
    \E i \in 1..(Len(text) + 1) :
        /\ i + Len(sub) - 1 <= Len(text)
        /\ SubSeq(text, i, i + Len(sub) - 1) = sub

\* str.replace(old, new) for a one-character old; new is a string
Replace(s, old, new) ==
    LET RECURSIVE Go(_)
        Go(t) == IF t = <<>> THEN <<>>
                 ELSE (IF Head(t) = old THEN new ELSE <<Head(t)>>) \o Go(Tail(t))
    IN Go(s)

\* str.split(sep) for a one-character sep: always at least one part
Split(s, sep) ==
    LET RECURSIVE Go(_, _)
        Go(t, cur) == IF t = <<>> THEN <<cur>>
                      ELSE IF Head(t) = sep THEN <<cur>> \o Go(Tail(t), <<>>)
                      ELSE Go(Tail(t), Append(cur, Head(t)))
    IN Go(s, <<>>)

\* the sequences over S of length at most n
RECURSIVE SeqUpTo(_, _)
SeqUpTo(S, n) ==
    IF n = 0 THEN {<<>>}
    ELSE LET shorter == SeqUpTo(S, n - 1)
         IN shorter \cup {Append(s, x) : s \in {t \in shorter : Len(t) = n - 1}, x \in S}

\* some enumeration of a finite set
RECURSIVE SetToSeq(_)
SetToSeq(S) ==
    IF S = {} THEN <<>>
    ELSE LET x == CHOOSE y \in S : TRUE IN <<x>> \o SetToSeq(S \ {x})

(***************************************************************************)
(* Regular expressions (module re), for the patterns used here: literal    *)
(* characters, "." (any character), "|" (alternation) and "(" which, with  *)
(* no closing parenthesis, makes the pattern fail to compile.              *)
(***************************************************************************)
ReCompiles(rx) == \A i \in DOMAIN rx : rx[i] # "("

ReCharMatches(p, c, ignorecase) ==
    \/ p = "."
    \/ p = c
    \/ ignorecase /\ LowerChar(p) = LowerChar(c)

ReAltMatchesAt(alt, text, i, ignorecase) ==
    /\ i + Len(alt) - 1 <= Len(text)
    /\ \A j \in DOMAIN alt : ReCharMatches(alt[j], text[i + j - 1], ignorecase)

\* re.search(rx, text, flags) is not None, for a pattern that compiles
ReSearch(rx, text, ignorecase) ==
    LET alts == Split(rx, "|")
    IN \E a \in DOMAIN alts : \E i \in 1..(Len(text) + 1) :
           ReAltMatchesAt(alts[a], text, i, ignorecase)

\* Series.str.contains(pat, regex=True, flags=...) on one cell; raised when
\* the pattern does not compile (re.error)
StrContainsRegex(text, rx, ignorecase) ==
    IF ReCompiles(rx) THEN [raised |-> FALSE, value |-> ReSearch(rx, text, ignorecase)]
    ELSE [raised |-> TRUE, value |-> FALSE]

(***************************************************************************)
(* try_read_csv and the upload branch of the script.                       *)
(*                                                                         *)
(* The uploaded file is a byte stream with a read position (an io.BytesIO);*)
(* it is modelled line by line, each line by the kind of bytes it holds:   *)
(*   "ascii"  only ASCII bytes                                             *)
(*   "utf8"   a well-formed UTF-8 multi-byte sequence                      *)
(*   "cp1250" a byte >= 0x80 that windows-1250 defines, not valid UTF-8    *)
(*   "x81"    the byte 0x81, which windows-1250 leaves undefined           *)
(***************************************************************************)
Encodings == <<"utf-8", "windows-1250", "cp1250", "iso-8859-2">>

LineKinds == {"ascii", "utf8", "cp1250", "x81"}

\* the codec behind an encoding name: windows-1250 and cp1250 are aliases
Codec(enc) == IF enc \in {"windows-1250", "cp1250"} THEN "cp1250" ELSE enc

\* bytes.decode(enc) succeeds on the line
Decodable(line, enc) ==
    CASE Codec(enc) = "utf-8" -> line \in {"ascii", "utf8"}
      [] Codec(enc) = "cp1250" -> line # "x81"
      [] OTHER -> TRUE

\* the text of a line under an encoding: ASCII reads the same in all four
DecodeLine(line, enc) ==
    IF line = "ascii" THEN [bytes |-> line, codec |-> "any"]
    ELSE [bytes |-> line, codec |-> Codec(enc)]

\* the table pandas parses from the lines it is given: the first line is the
\* header, the others are the rows
ParseTable(lines, enc) ==
    [columns |-> DecodeLine(lines[1], enc),
     rows |-> [i \in 1..(Len(lines) - 1) |-> DecodeLine(lines[i + 1], enc)]]

\* what is left of the stream from the read position on
Remainder(file, pos) == SubSeq(file, pos + 1, Len(file))

\* pd.read_csv(file, encoding=enc, ...) at line 23: it reads the stream from
\* its current position.  first_bad is the absolute line of the first
\* undecodable byte.
ReadCsv(file, pos, enc) ==
    LET rem == Remainder(file, pos)
        bad == {i \in DOMAIN rem : ~Decodable(rem[i], enc)}
    IN IF rem = <<>>
       THEN [ok |-> FALSE, err |-> "EmptyDataError", first_bad |-> pos]
       ELSE IF bad # {}
       THEN [ok |-> FALSE, err |-> "UnicodeDecodeError",
             first_bad |-> pos + (CHOOSE i \in bad : \A j \in bad : i <= j)]
       ELSE [ok |-> TRUE, table |-> ParseTable(rem, enc)]

InitRead ==
    /\ \E file \in SeqUpTo(LineKinds, MaxFileLines) :
           rd = [pc |-> "try", file |-> file, pos |-> 0, enc |-> 1,
                 last_err |-> None, tried |-> <<>>, df_raw |-> None, ran |-> {}]
    /\ ar = Idle /\ cell = Idle /\ ec = Idle /\ sm = Idle
    /\ SessionIdle

\* one iteration of the loop at lines 21-26 whose read_csv succeeds
AttemptReturns ==
    /\ rd.pc = "try"
    /\ rd.enc <= Len(Encodings)
    /\ LET r == ReadCsv(rd.file, rd.pos, Encodings[rd.enc])
       IN /\ r.ok
          /\ rd' = [rd EXCEPT !.pc = "returned", !.df_raw = r.table,
                              !.pos = Len(rd.file),
                              !.tried = Append(@, [enc |-> Encodings[rd.enc], err |-> "none"])]
    /\ UNCHANGED <<ar, cell, ec, sm, sess>>

\* one iteration whose read_csv raises: the bytes read so far are consumed.
\* How far the reader's buffer ran past the bad byte depends on the buffer
\* size, so the new position is any line from the bad one to the end.
AttemptFails ==
    /\ rd.pc = "try"
    /\ rd.enc <= Len(Encodings)
    /\ LET r == ReadCsv(rd.file, rd.pos, Encodings[rd.enc])
       IN /\ ~r.ok
          /\ \E p \in r.first_bad..Len(rd.file) :
                rd' = [rd EXCEPT !.pos = p, !.enc = @ + 1,
                                 !.last_err = [enc |-> Encodings[rd.enc], err |-> r.err],
                                 !.tried = Append(@, [enc |-> Encodings[rd.enc], err |-> r.err])]
    /\ UNCHANGED <<ar, cell, ec, sm, sess>>

\* line 27: raise last_err, caught at line 121: st.error and st.stop
RaiseAndStop ==
    /\ rd.pc = "try"
    /\ rd.enc > Len(Encodings)
    /\ rd' = [rd EXCEPT !.pc = "stopped"]
    /\ UNCHANGED <<ar, cell, ec, sm, sess>>

\* lines 125-237: the rest of the script runs on df_raw
RestOfScript ==
    /\ rd.pc = "returned"
    /\ rd' = [rd EXCEPT !.pc = "rendered",
                        !.ran = {"mapping", "rules", "summary", "export"}]
    /\ UNCHANGED <<ar, cell, ec, sm, sess>>

NextRead == AttemptReturns \/ AttemptFails \/ RaiseAndStop \/ RestOfScript

SpecRead == InitRead /\ [][NextRead]_vars

\* C6: the table returned is the whole file parsed under the encoding of
\* the one successful attempt, every earlier encoding having failed and no
\* later one tried; a raise follows four failed attempts and carries the
\* last one's error; after a raise no later step of the script has run.
C6_FirstEncodingWholeFile ==
    /\ rd.pc \in {"returned", "rendered"} =>
          LET n == Len(rd.tried)
          IN /\ rd.df_raw = ParseTable(rd.file, rd.tried[n].enc)
             /\ \A k \in 1..n : rd.tried[k].enc = Encodings[k]
             /\ \A k \in 1..(n - 1) : rd.tried[k].err # "none"
    /\ rd.pc = "stopped" =>
          /\ Len(rd.tried) = Len(Encodings)
          /\ \A k \in DOMAIN rd.tried : rd.tried[k].err # "none"
          /\ rd.last_err = rd.tried[Len(rd.tried)]
          /\ rd.ran = {}

\* the parts of C6 other than "parsed from the whole file"
C6_OrderAndRaise ==
    /\ rd.pc \in {"returned", "rendered"} =>
          LET n == Len(rd.tried)
          IN /\ \A k \in 1..n : rd.tried[k].enc = Encodings[k]
             /\ \A k \in 1..(n - 1) : rd.tried[k].err # "none"
             /\ rd.df_raw = ParseTable(Remainder(rd.file, Len(rd.file) - 1 - Len(rd.df_raw.rows)),
                                        rd.tried[n].enc)
    /\ rd.pc = "stopped" =>
          /\ Len(rd.tried) = Len(Encodings)
          /\ \A k \in DOMAIN rd.tried : rd.tried[k].err # "none"
          /\ rd.last_err = rd.tried[Len(rd.tried)]
          /\ rd.ran = {}

(***************************************************************************)
(* apply_rules                                                             *)
(***************************************************************************)
\* kws = [k.strip().lower() for k in rule.get("keywords", []) if k.strip()]
RuleKws(rule) ==
    LET kept == SelectSeq(rule.keywords, LAMBDA k : Strip(k) # <<>>)
    IN [i \in DOMAIN kept |-> Lower(Strip(kept[i]))]

\* A try around the whole rule body instead of around the regex alone:
\* an invalid regex makes the rule match nothing.
RuleMaskSkipRule(rule, text) ==
    LET rx == Strip(rule.regex)
        kws == RuleKws(rule)
    IN IF rx # <<>> /\ ~ReCompiles(rx) THEN FALSE
       ELSE \/ \E i \in DOMAIN kws : Contains(text, kws[i])
            \/ rx # <<>> /\ ReSearch(rx, text, TRUE)

\* The mask of one rule on one row (text is the lower-cased description):
\* the body of the loop at lines 78-91.
RuleMask(rule, text) ==
    LET kws == RuleKws(rule)
        rx == Strip(rule.regex)
        kwMask == \E i \in DOMAIN kws : Contains(text, kws[i])
        rxRes == StrContainsRegex(text, rx, TRUE)
    IN IF rx = <<>> THEN kwMask
       ELSE IF rxRes.raised THEN kwMask     \* except: pass
       ELSE kwMask \/ rxRes.value

\* The first matching rule wins instead of the last.
RECURSIVE CatsFirstWins(_, _, _)
CatsFirstWins(row, rules, n) ==
    IF n = 0 THEN row.kategorie
    ELSE LET rest == [i \in 1..(Len(rules) - 1) |-> rules[i + 1]]
         IN IF RuleMask(rules[1], Lower(row.popis)) THEN rules[1].name
            ELSE CatsFirstWins(row, rest, n - 1)

\* cats after the first n rules, for one row: cats = cats.mask(mask, cat)
RECURSIVE CatsAfter(_, _, _)
CatsAfter(row, rules, n) ==
    IF n = 0 THEN row.kategorie
    ELSE IF RuleMask(rules[n], Lower(row.popis)) THEN rules[n].name
    ELSE CatsAfter(row, rules, n - 1)

apply_rules(df, rules) ==
    IF rules = <<>> THEN df
    ELSE [i \in DOMAIN df |->
             [df[i] EXCEPT !.kategorie = CatsAfter(df[i], rules, Len(rules))]]

(***************************************************************************)
(* SpecRules: one call of apply_rules on a table holding every description *)
(* of the sample, under every rule list of the sample.                     *)
(***************************************************************************)
Nezarazeno == <<"N", "e", "z", "a", "r", "a", "z", "e", "n", "o">>
Imported == <<"I", "m", "p">>

DescChars == {"a", "b", "A"}
Descs == SeqUpTo(DescChars, MaxDescLen)

\* Rules as the sidebar stores them: a trimmed non-empty name, trimmed
\* keywords (possibly empty strings), a trimmed regex.
SampleNames == {<<"P">>, <<"J">>}
SampleMatchers ==
    { [keywords |-> << <<"a">> >>, regex |-> <<>>],
      [keywords |-> <<>>, regex |-> <<"B">>],
      [keywords |-> << <<>>, <<"A", "b">> >>, regex |-> <<"(">>],
      [keywords |-> << <<"a">> >>, regex |-> <<"(">>],
      [keywords |-> <<>>, regex |-> <<"a", "a", "|", "b", ".">>],
      [keywords |-> <<>>, regex |-> <<>>] }
SampleRules ==
    {[name |-> n, keywords |-> m.keywords, regex |-> m.regex] :
        n \in SampleNames, m \in SampleMatchers}

\* the table after ensure_columns: one row per description
TableOf(cat) ==
    LET ds == SetToSeq(Descs)
    IN [i \in DOMAIN ds |-> [popis |-> ds[i], kategorie |-> cat, castka |-> i]]

InitRules ==
    \E rules \in SeqUpTo(SampleRules, MaxRuleListLen), cat \in {Nezarazeno, Imported} :
        /\ ar = [pc |-> "call", df |-> TableOf(cat), rules |-> rules, res |-> None]
        /\ rd = Idle /\ cell = Idle /\ ec = Idle /\ sm = Idle
        /\ SessionIdle

ApplyRulesCall ==
    /\ ar.pc = "call"
    /\ ar' = [ar EXCEPT !.pc = "done", !.res = apply_rules(ar.df, ar.rules)]
    /\ UNCHANGED <<rd, cell, ec, sm, sess>>

NextRules == ApplyRulesCall

SpecRules == InitRules /\ [][NextRules]_vars

\* A rule matches a description, as the claim words it.
Matches(rule, popis) ==
    \/ \E i \in DOMAIN rule.keywords :
           LET k == Lower(Strip(rule.keywords[i]))
           IN k # <<>> /\ Contains(Lower(popis), k)
    \/ /\ rule.regex # <<>>
       /\ ReCompiles(rule.regex)
       /\ ReSearch(rule.regex, popis, TRUE)

MatchingRules(rules, popis) == {n \in DOMAIN rules : Matches(rules[n], popis)}

SetMax(S) == CHOOSE x \in S : \A y \in S : y <= x

\* C1: after apply_rules with a non-empty rule list every row carries the
\* name of the last rule of the list that matches it, a row no rule matches
\* keeps the category it had, and nothing else of the row changes.
C1_LastMatchWins ==
    (ar.pc = "done" /\ ar.rules # <<>>) =>
        /\ DOMAIN ar.res = DOMAIN ar.df
        /\ \A i \in DOMAIN ar.df :
               LET M == MatchingRules(ar.rules, ar.df[i].popis)
               IN ar.res[i] = [ar.df[i] EXCEPT !.kategorie =
                                 IF M = {} THEN ar.df[i].kategorie
                                 ELSE ar.rules[SetMax(M)].name]

\* a row matched by two rules of different names takes the later one,
\* beside a row that no rule matches
C1_Witness ==
    /\ ar.pc = "done"
    /\ Len(ar.rules) = 2
    /\ ar.rules[1].name # ar.rules[2].name
    /\ \E i \in DOMAIN ar.df :
           /\ MatchingRules(ar.rules, ar.df[i].popis) = {1, 2}
           /\ ar.res[i].kategorie = ar.rules[2].name
    /\ \E i \in DOMAIN ar.df :
           /\ MatchingRules(ar.rules, ar.df[i].popis) = {}
           /\ ar.res[i].kategorie = ar.df[i].kategorie

\* the rule list with every regex that does not compile replaced by ""
WithoutInvalidRegex(rules) ==
    [n \in DOMAIN rules |->
        IF ReCompiles(Strip(rules[n].regex)) THEN rules[n]
        ELSE [rules[n] EXCEPT !.regex = <<>>]]

\* C9: a rule with an invalid regex loses only its regex: the result equals
\* the result for the same list with that regex replaced by the empty string.
C9_InvalidRegexIgnored ==
    ar.pc = "done" => ar.res = apply_rules(ar.df, WithoutInvalidRegex(ar.rules))

\* a rule with an invalid regex is the last one to match a row, by its
\* keyword, and the row takes its name
C9_Witness ==
    /\ ar.pc = "done"
    /\ \E n \in DOMAIN ar.rules :
           /\ ~ReCompiles(ar.rules[n].regex)
           /\ \E i \in DOMAIN ar.df :
                  /\ SetMax(MatchingRules(ar.rules, ar.df[i].popis) \cup {0}) = n
                  /\ ar.res[i].kategorie = ar.rules[n].name
                  /\ ar.res[i].kategorie # ar.df[i].kategorie

(***************************************************************************)
(* to_float and parse_date                                                 *)
(***************************************************************************)
Digits == {"0", "1"}
DigitVal(c) == IF c = "1" THEN 1 ELSE 0

\* the integer a digit string writes
RECURSIVE DigitsVal(_)
DigitsVal(ds) ==
    IF ds = <<>> THEN 0
    ELSE 10 * DigitsVal(SubSeq(ds, 1, Len(ds) - 1)) + DigitVal(ds[Len(ds)])

\* A number is num / 10^frac, with no trailing zero in the fraction.
RECURSIVE Normal(_)
Normal(v) ==
    IF v.frac > 0 /\ v.num % 10 = 0
    THEN Normal([num |-> v.num \div 10, frac |-> v.frac - 1])
    ELSE v

RECURSIVE Pow10(_)
Pow10(n) == IF n = 0 THEN 1 ELSE 10 * Pow10(n - 1)

Num(n) == [num |-> n, frac |-> 0]

NumAdd(a, b) ==
    LET f == IF a.frac > b.frac THEN a.frac ELSE b.frac
    IN Normal([num |-> a.num * Pow10(f - a.frac) + b.num * Pow10(f - b.frac),
               frac |-> f])

NumAbs(v) == [v EXCEPT !.num = IF @ < 0 THEN -@ ELSE @]
NumNeg(v) == [v EXCEPT !.num = -@]

\* an unsigned decimal literal: digits with at most one point and at least
\* one digit
IsDecimal(s) ==
    /\ \A i \in DOMAIN s : s[i] \in Digits \cup {"."}
    /\ Cardinality({i \in DOMAIN s : s[i] = "."}) <= 1
    /\ \E i \in DOMAIN s : s[i] \in Digits

DecimalVal(s) ==
    LET ds == SelectSeq(s, LAMBDA c : c # ".")
        dots == {i \in DOMAIN s : s[i] = "."}
        frac == IF dots = {} THEN 0 ELSE Len(s) - (CHOOSE i \in dots : TRUE)
    IN Normal([num |-> DigitsVal(ds), frac |-> frac])

\* float(s): surrounding whitespace is ignored, then an optional sign and a
\* decimal literal; anything else raises ValueError
PyFloat(s) ==
    LET t == Strip(s)
        signed == t # <<>> /\ Head(t) \in {"-", "+"}
        body == IF signed THEN Tail(t) ELSE t
    IN IF IsDecimal(body)
       THEN [raised |-> FALSE,
             value |-> IF signed /\ Head(t) = "-" THEN NumNeg(DecimalVal(body))
                       ELSE DecimalVal(body)]
       ELSE [raised |-> TRUE, value |-> None]

\* pd.isna(x) for a scalar cell
IsNa(x) == x = NaN

\* str(x) of a cell: a missing cell prints as nan
AsStr(x) == IF x = NaN THEN <<"n", "a", "n">> ELSE x

\* to_float without the comma-to-dot replacement
ToFloatNoComma(x) ==
    IF IsNa(x) THEN [raised |-> FALSE, value |-> None]
    ELSE LET s == Replace(Replace(Strip(AsStr(x)), " ", <<>>), "nbsp", <<>>)
             f == PyFloat(s)
         IN IF f.raised THEN [raised |-> FALSE, value |-> None] ELSE f

\* to_float, lines 29-38; raised tells whether the call raises
to_float(x) ==
    IF IsNa(x) THEN [raised |-> FALSE, value |-> None]
    ELSE LET s0 == Strip(AsStr(x))
             s == Replace(Replace(Replace(s0, " ", <<>>), "nbsp", <<>>), ",", <<".">>)
             f == PyFloat(s)
         IN IF f.raised THEN [raised |-> FALSE, value |-> None]    \* except: return None
            ELSE f

\* Date cells are token strings: number tokens, "." and "-" separators,
\* spaces and other text.  The calendar is that of 2025.
YearTok == "2025"

NumToks == {"0", "2", "4", "13", "31"}
TokVal(t) ==
    CASE t = "0" -> 0 [] t = "2" -> 2 [] t = "4" -> 4 [] t = "13" -> 13 [] t = "31" -> 31

DaysIn(m) == CASE m = 2 -> 28 [] m \in {4, 6, 9, 11} -> 30 [] OTHER -> 31

IsDate(dt, mt) == TokVal(mt) \in 1..12 /\ TokVal(dt) \in 1..DaysIn(TokVal(mt))


\* <<a, ".", b, ".", 2025>>
IsDotted(t) ==
    /\ Len(t) = 5 /\ t[2] = "." /\ t[4] = "." /\ t[5] = YearTok
    /\ t[1] \in NumToks /\ t[3] \in NumToks

\* <<2025, "-", m, "-", d>>
IsIso(t) ==
    /\ Len(t) = 5 /\ t[2] = "-" /\ t[4] = "-" /\ t[1] = YearTok
    /\ t[3] \in NumToks /\ t[5] \in NumToks

Date(dt, mt) == [year |-> 2025, month |-> TokVal(mt), day |-> TokVal(dt)]

\* pd.to_datetime(s, dayfirst=dayfirst, errors="raise") on one string.
\* An ISO string reads year-month-day whatever dayfirst says.  For a dotted
\* string the parser reads it in the order asked; a lenient parser (dateutil)
\* falls back to the other order when the one asked gives no date, a strict
\* one raises.
ToDatetime(s, dayfirst, lenient) ==
    LET t == Strip(s)
        bad == [raised |-> TRUE, value |-> None]
        ok(d, m) == [raised |-> FALSE, value |-> Date(d, m)]
    IN IF IsIso(t) THEN (IF IsDate(t[5], t[3]) THEN ok(t[5], t[3]) ELSE bad)
       ELSE IF IsDotted(t) THEN
            LET d1 == IF dayfirst THEN t[1] ELSE t[3]
                m1 == IF dayfirst THEN t[3] ELSE t[1]
            IN IF IsDate(d1, m1) THEN ok(d1, m1)
               ELSE IF lenient /\ IsDate(m1, d1) THEN ok(m1, d1)
               ELSE bad
       ELSE bad

\* parse_date, lines 40-50; None stands for None and for NaT alike
parse_date(s, lenient) ==
    IF IsNa(s) THEN [raised |-> FALSE, value |-> None]
    ELSE LET t == Strip(AsStr(s))
             r1 == ToDatetime(t, TRUE, lenient)
             r2 == ToDatetime(t, FALSE, lenient)
         IN IF ~r1.raised THEN r1
            ELSE IF ~r2.raised THEN r2
            ELSE [raised |-> FALSE, value |-> None]

(***************************************************************************)
(* SpecCells: to_float and parse_date called on every cell of the sample.  *)
(***************************************************************************)
AmountChars == {"1", "0", "-", ".", ",", " ", "nbsp", "x"}
AmountCells == {NaN} \cup SeqUpTo(AmountChars, MaxCellLen)

DateFields == NumToks
Pads == {<<>>, <<" ">>}
DateCells ==
    {NaN, <<>>, <<"x">>, <<"2", ".", "4">>}
    \cup {l \o <<a, ".", b, ".", YearTok>> \o r : a \in DateFields, b \in DateFields,
                                                   l \in Pads, r \in Pads}
    \cup {<<YearTok, "-", a, "-", b>> : a \in DateFields, b \in DateFields}

InitCells ==
    /\ cell = [pc |-> "ready"]
    /\ ar = Idle /\ rd = Idle /\ ec = Idle /\ sm = Idle
    /\ SessionIdle

ToFloatCall ==
    /\ cell.pc = "ready"
    /\ \E x \in AmountCells :
          cell' = [pc |-> "to_float", x |-> x, res |-> to_float(x)]
    /\ UNCHANGED <<ar, rd, ec, sm, sess>>

ParseDateCall ==
    /\ cell.pc = "ready"
    /\ \E x \in DateCells, lenient \in BOOLEAN :
          cell' = [pc |-> "parse_date", x |-> x, lenient |-> lenient,
                   res |-> parse_date(x, lenient)]
    /\ UNCHANGED <<ar, rd, ec, sm, sess>>

NextCells == ToFloatCall \/ ParseDateCall

SpecCells == InitCells /\ [][NextCells]_vars

\* the cell with its spaces and non-breaking spaces removed and its commas
\* turned into dots
Cleaned(x) ==
    LET kept == SelectSeq(x, LAMBDA c : c \notin {" ", "nbsp"})
    IN [i \in DOMAIN kept |-> IF kept[i] = "," THEN "." ELSE kept[i]]

\* the date a cell writes when read day-first, month-first; None if none
ReadsAs(x, dayfirst) ==
    LET t == SelectSeq(x, LAMBDA c : c # " ")
    IN IF IsIso(t) /\ IsDate(t[5], t[3]) THEN Date(t[5], t[3])
       ELSE IF IsDotted(t) /\ dayfirst /\ IsDate(t[1], t[3]) THEN Date(t[1], t[3])
       ELSE IF IsDotted(t) /\ ~dayfirst /\ IsDate(t[3], t[1]) THEN Date(t[3], t[1])
       ELSE None

\* C7: to_float and parse_date never raise; to_float gives the number the
\* cleaned cell writes, or a missing value when it writes none; parse_date
\* gives the day-first reading, else the month-first one, else a missing
\* value; a missing cell gives a missing value.
C7_ParsingDegrades ==
    /\ cell.pc \in {"to_float", "parse_date"} => ~cell.res.raised
    /\ cell.pc = "to_float" =>
          cell.res.value =
             IF cell.x = NaN THEN None
             ELSE IF PyFloat(Cleaned(cell.x)).raised THEN None
             ELSE PyFloat(Cleaned(cell.x)).value
    /\ cell.pc = "parse_date" =>
          cell.res.value =
             IF cell.x = NaN THEN None
             ELSE IF ReadsAs(cell.x, TRUE) # None THEN ReadsAs(cell.x, TRUE)
             ELSE ReadsAs(cell.x, FALSE)

\* a cell with a non-breaking space and a decimal comma parsed to a number
C7_Witness ==
    /\ cell.pc = "to_float"
    /\ cell.x = <<"nbsp", ",", "1">>
    /\ cell.res = [raised |-> FALSE, value |-> [num |-> 1, frac |-> 1]]

(***************************************************************************)
(* ensure_columns                                                          *)
(***************************************************************************)
\* the patterns of lines 65 and 66; "r^" and "i'" stand for the letters
\* r-hacek and i-acute
IncomePattern ==
    <<"p", "r^", "i'", "c", "h", "o", "z", "i'", "|",
      "p", "r", "i", "c", "h", "o", "z", "i", "|",
      "c", "r", "e", "d", "i", "t", "|",
      "i", "n", "c", "o", "m", "i", "n", "g">>

ExpensePattern ==
    <<"o", "d", "c", "h", "o", "z", "i'", "|",
      "o", "d", "c", "h", "o", "z", "i", "|",
      "d", "e", "b", "i", "t", "|",
      "o", "u", "t", "g", "o", "i", "n", "g">>

\* the sign of one row's amount, lines 67 and 68 in the other order
SignedOutgoingFirst(castka, dir) ==
    LET dir_col == Lower(AsStr(dir))
        mask_income == ReSearch(IncomePattern, dir_col, FALSE)
        mask_exp == ReSearch(ExpensePattern, dir_col, FALSE)
        c1 == IF mask_exp /\ castka # None THEN NumNeg(NumAbs(castka)) ELSE castka
    IN IF mask_income /\ c1 # None THEN NumAbs(c1) ELSE c1

\* the sign of one row's amount from its direction cell, lines 64-68
Signed(castka, dir) ==
    LET dir_col == Lower(AsStr(dir))
        mask_income == ReSearch(IncomePattern, dir_col, FALSE)
        mask_exp == ReSearch(ExpensePattern, dir_col, FALSE)
        c1 == IF mask_income /\ castka # None THEN NumAbs(castka) ELSE castka
    IN IF mask_exp /\ c1 # None THEN NumNeg(NumAbs(c1)) ELSE c1

\* ensure_columns, lines 52-70.  A row of df holds the cells of the mapped
\* columns; mapping.direction and mapping.category tell whether those two
\* optional columns are mapped.
ensure_columns(df, mapping, lenient) ==
    [i \in DOMAIN df |->
        LET castka == to_float(df[i].amount).value
        IN [datum |-> parse_date(df[i].date, lenient).value,
            castka |-> IF mapping.direction THEN Signed(castka, df[i].direction)
                       ELSE castka,
            popis |-> AsStr(df[i].desc),
            kategorie |-> IF mapping.category THEN AsStr(df[i].category)
                          ELSE Nezarazeno]]

(***************************************************************************)
(* SpecColumns: one call of ensure_columns on every small table of sample  *)
(* rows, with and without the optional columns mapped.                     *)
(***************************************************************************)
SampleAmounts == {NaN, <<"0">>, <<"1", ",", "1">>, <<"-", "1", "0">>}

SampleDirections ==
    {NaN, <<"x">>,
     <<"C", "r", "e","d", "i", "t">>,
     <<"p", "r", "i", "c", "h", "o", "z", "i", " ", "x">>,
     <<"D", "e", "b", "i", "t">>,
     <<"o", "d", "c", "h", "o", "z", "i'">>,
     <<"d", "e", "b", "i", "t", "/", "c", "r", "e", "d", "i", "t">>}

SampleRowCells ==
    [date : {<<"2", ".", "4", ".", YearTok>>}, amount : SampleAmounts,
     desc : {<<"a">>}, direction : SampleDirections, category : {<<"J">>}]

InitColumns ==
    /\ \E df \in SeqUpTo(SampleRowCells, MaxRows) \ {<<>>},
          direction \in BOOLEAN, category \in BOOLEAN :
          ec = [pc |-> "call", df |-> df, lenient |-> TRUE,
                mapping |-> [direction |-> direction, category |-> category],
                out |-> <<>>]
    /\ ar = Idle /\ rd = Idle /\ cell = Idle /\ sm = Idle
    /\ SessionIdle

EnsureColumnsCall ==
    /\ ec.pc = "call"
    /\ ec' = [ec EXCEPT !.pc = "done",
                        !.out = ensure_columns(ec.df, ec.mapping, ec.lenient)]
    /\ UNCHANGED <<ar, rd, cell, sm, sess>>

NextColumns == EnsureColumnsCall

SpecColumns == InitColumns /\ [][NextColumns]_vars

\* the direction text names one of the words, in any letter case
Marks(dir, words) == \E w \in words : Contains(Lower(AsStr(dir)), w)

IncomingWords ==
    {<<"p", "r^", "i'", "c", "h", "o", "z", "i'">>, <<"p", "r", "i", "c", "h", "o", "z", "i">>,
     <<"c", "r", "e", "d", "i", "t">>, <<"i", "n", "c", "o", "m", "i", "n", "g">>}

OutgoingWords ==
    {<<"o", "d", "c", "h", "o", "z", "i'">>, <<"o", "d", "c", "h", "o", "z", "i">>,
     <<"d", "e", "b", "i", "t">>, <<"o", "u", "t", "g", "o", "i", "n", "g">>}

\* C8: with a direction column mapped an incoming (and not outgoing) row
\* ends with |amount| >= 0, an outgoing row with -|amount| <= 0, a row that
\* is neither keeps its parsed amount, a missing amount stays missing;
\* with no direction column every amount is left as parsed.
C8_SignFromDirection ==
    ec.pc = "done" =>
        \A i \in DOMAIN ec.df :
            LET parsed == to_float(ec.df[i].amount).value
                res == ec.out[i].castka
                inc == Marks(ec.df[i].direction, IncomingWords)
                out == Marks(ec.df[i].direction, OutgoingWords)
            IN IF parsed = None THEN res = None
               ELSE IF ~ec.mapping.direction THEN res = parsed
               ELSE IF out THEN res = NumNeg(NumAbs(parsed)) /\ res.num <= 0
               ELSE IF inc THEN res = NumAbs(parsed) /\ res.num >= 0
               ELSE res = parsed

\* a row marked both incoming and outgoing made negative, beside an
\* incoming row whose negative amount was made positive
C8_Witness ==
    /\ ec.pc = "done"
    /\ ec.mapping.direction
    /\ \E i \in DOMAIN ec.df :
          /\ Marks(ec.df[i].direction, IncomingWords)
          /\ Marks(ec.df[i].direction, OutgoingWords)
          /\ ~IsNa(ec.df[i].amount)
          /\ to_float(ec.df[i].amount).value.num > 0
          /\ ec.out[i].castka.num < 0
    /\ \E i \in DOMAIN ec.df :
          /\ Marks(ec.df[i].direction, IncomingWords)
          /\ ~Marks(ec.df[i].direction, OutgoingWords)
          /\ ~IsNa(ec.df[i].amount)
          /\ to_float(ec.df[i].amount).value.num < 0
          /\ ec.out[i].castka.num > 0

(***************************************************************************)
(* The totals (lines 197-199), monthly_summary and category_summary.       *)
(***************************************************************************)
\* Series.sum() of the amounts of the rows in I: missing values are skipped
RECURSIVE SumOver(_, _)
SumOver(df, I) ==
    IF I = {} THEN Num(0)
    ELSE LET i == CHOOSE j \in I : TRUE
         IN IF df[i].castka = None THEN SumOver(df, I \ {i})
            ELSE NumAdd(df[i].castka, SumOver(df, I \ {i}))

\* the rows with castka > 0, with castka < 0: a missing amount compares false
Positive(df) == {i \in DOMAIN df : df[i].castka # None /\ df[i].castka.num > 0}
Negative(df) == {i \in DOMAIN df : df[i].castka # None /\ df[i].castka.num < 0}

total_income(df) == SumOver(df, Positive(df))
total_exp(df) == NumNeg(SumOver(df, Negative(df)))
balance(df) == NumAdd(total_income(df), NumNeg(total_exp(df)))

\* dt.to_period("M"): the month of a date; groupby drops the rows without
MonthOf(d) == [year |-> d.year, month |-> d.month]
Months(df) == {MonthOf(df[i].datum) : i \in {j \in DOMAIN df : df[j].datum # None}}
InMonth(df, mo) == {i \in DOMAIN df : df[i].datum # None /\ MonthOf(df[i].datum) = mo}

\* monthly_summary, lines 97-104: one row per month; fillna(0.0) fills the
\* months that have no income or no expense
monthly_summary(df) ==
    [mo \in Months(df) |->
        [Prijmy |-> SumOver(df, InMonth(df, mo) \cap Positive(df)),
         Vydaje |-> NumNeg(SumOver(df, InMonth(df, mo) \cap Negative(df))),
         Saldo |-> SumOver(df, InMonth(df, mo))]]

\* exp.groupby("kategorie")["castka"].sum(): the sum of each category that
\* has an expense row
ExpenseSums(df) ==
    LET cs == {df[i].kategorie : i \in Negative(df)}
    IN {[kategorie |-> c,
         value |-> SumOver(df, {i \in Negative(df) : df[i].kategorie = c})] : c \in cs}

NumLeq(a, b) == NumAdd(a, NumNeg(b)).num <= 0

\* sort_values(ascending=False): the orders of S by decreasing value; equal
\* values may come in either order
SortedDescending(S) ==
    {s \in [1..Cardinality(S) -> S] :
        /\ \A i, j \in DOMAIN s : i # j => s[i] # s[j]
        /\ \A i, j \in DOMAIN s : i < j => NumLeq(s[j].value, s[i].value)}

\* category_summary, lines 106-108: the sums are sorted while still negative
\* and negated afterwards.  The set holds every order the sort may give.
category_summary(df) ==
    {[i \in DOMAIN s |-> [s[i] EXCEPT !.value = NumNeg(@)]] :
        s \in SortedDescending(ExpenseSums(df))}

(***************************************************************************)
(* SpecSummary: the summaries of every small edited table with integer     *)
(* amounts.                                                                *)
(***************************************************************************)
January == [year |-> 2025, month |-> 1, day |-> 5]
February == [year |-> 2025, month |-> 2, day |-> 7]

SampleEditedRows ==
    [datum : {None, January, February},
     castka : {None, Num(-2), Num(-1), Num(3)},
     popis : {<<"a">>},
     kategorie : {<<"P">>, <<"J">>}]

InitSummary ==
    /\ \E df \in SeqUpTo(SampleEditedRows, MaxEditRows) :
          sm = [pc |-> "edited", data_edit |-> df]
    /\ ar = Idle /\ rd = Idle /\ cell = Idle /\ ec = Idle
    /\ SessionIdle

\* lines 196-217 on the edited table
Summarise ==
    /\ sm.pc = "edited"
    /\ \E cats \in category_summary(sm.data_edit) :
          sm' = [pc |-> "shown", data_edit |-> sm.data_edit,
                 total_income |-> total_income(sm.data_edit),
                 total_exp |-> total_exp(sm.data_edit),
                 balance |-> balance(sm.data_edit),
                 cats |-> cats,
                 m |-> monthly_summary(sm.data_edit)]
    /\ UNCHANGED <<ar, rd, cell, ec, sess>>

NextSummary == Summarise

SpecSummary == InitSummary /\ [][NextSummary]_vars

RECURSIVE SeqSum(_)
SeqSum(s) == IF s = <<>> THEN Num(0) ELSE NumAdd(Head(s).value, SeqSum(Tail(s)))

\* the parts of C10 other than the order of category_summary
C10_Consistent ==
    sm.pc = "shown" =>
        /\ sm.balance = SumOver(sm.data_edit, DOMAIN sm.data_edit)
        /\ sm.balance = NumAdd(sm.total_income, NumNeg(sm.total_exp))
        /\ sm.total_income.num >= 0 /\ sm.total_exp.num >= 0
        /\ \A mo \in DOMAIN sm.m :
              /\ sm.m[mo].Saldo = NumAdd(sm.m[mo].Prijmy, NumNeg(sm.m[mo].Vydaje))
              /\ sm.m[mo].Prijmy.num >= 0 /\ sm.m[mo].Vydaje.num >= 0
        /\ \A i \in DOMAIN sm.cats : sm.cats[i].value.num > 0
        /\ SeqSum(sm.cats) = sm.total_exp

\* C10: the balance is the sum of the non-missing amounts, the totals and
\* the monthly columns are >= 0 with Saldo = Prijmy - Vydaje, and the values
\* of category_summary are > 0, in descending order, and sum to total_exp.
C10_SummariesConsistent ==
    /\ C10_Consistent
    /\ sm.pc = "shown" =>
          \A i, j \in DOMAIN sm.cats :
              i < j => NumLeq(sm.cats[j].value, sm.cats[i].value)

\* what the code gives instead: the values come in ascending order
C10_Ascending ==
    sm.pc = "shown" =>
        \A i, j \in DOMAIN sm.cats :
            i < j => NumLeq(sm.cats[i].value, sm.cats[j].value)

(***************************************************************************)
(* json.dumps(rules, ensure_ascii=False, indent=2), character by character *)
(***************************************************************************)
Quote == "\""
Backslash == "\\"

Spaces(n) == [i \in 1..n |-> " "]

RECURSIVE Concat(_)
Concat(ss) == IF ss = <<>> THEN <<>> ELSE Head(ss) \o Concat(Tail(ss))

\* a string literal whose quotes and backslashes are written as they are
JsonStringRaw(str) == <<Quote>> \o str \o <<Quote>>

\* a string literal: quotes and backslashes are escaped
JsonString(str) ==
    <<Quote>>
    \o Concat([i \in DOMAIN str |->
                 IF str[i] \in {Quote, Backslash} THEN <<Backslash, str[i]>>
                 ELSE <<str[i]>>])
    \o <<Quote>>

\* a list of already written items at nesting depth ind
JsonArray(items, ind) ==
    IF items = <<>> THEN <<"[", "]">>
    ELSE <<"[">>
         \o Concat([i \in DOMAIN items |->
                      (IF i > 1 THEN <<",">> ELSE <<>>)
                      \o <<"\n">> \o Spaces(ind + 2) \o items[i]])
         \o <<"\n">> \o Spaces(ind) \o <<"]">>

JsonMember(key, val) == JsonString(key) \o <<":", " ">> \o val

\* a rule, its keys in insertion order: name, keywords, regex
JsonRule(rule, ind) ==
    LET members ==
          << JsonMember(<<"n", "a", "m", "e">>, JsonString(rule.name)),
             JsonMember(<<"k", "e", "y", "w", "o", "r", "d", "s">>,
                        JsonArray([k \in DOMAIN rule.keywords |->
                                      JsonString(rule.keywords[k])], ind + 2)),
             JsonMember(<<"r", "e", "g", "e", "x">>, JsonString(rule.regex)) >>
    IN <<"{">>
       \o Concat([i \in DOMAIN members |->
                    (IF i > 1 THEN <<",">> ELSE <<>>)
                    \o <<"\n">> \o Spaces(ind + 2) \o members[i]])
       \o <<"\n">> \o Spaces(ind) \o <<"}">>

json_dumps(rules) == JsonArray([i \in DOMAIN rules |-> JsonRule(rules[i], 2)], 0)

(***************************************************************************)
(* json.loads: what reading the downloaded file back gives.  A value is a  *)
(* string, an array or an object; the result is [ok, val, rest].           *)
(***************************************************************************)
JsonFail == [ok |-> FALSE, val |-> <<>>, rest |-> <<>>]

RECURSIVE SkipWs(_)
SkipWs(t) == IF t # <<>> /\ Head(t) \in {" ", "\n", "\t"} THEN SkipWs(Tail(t)) ELSE t

\* the characters after an opening quote, up to the closing one
RECURSIVE ParseStringBody(_, _)
ParseStringBody(t, acc) ==
    IF t = <<>> THEN JsonFail
    ELSE IF Head(t) = Quote THEN [ok |-> TRUE, val |-> acc, rest |-> Tail(t)]
    ELSE IF Head(t) = Backslash
         THEN IF Len(t) >= 2 /\ t[2] \in {Quote, Backslash}
              THEN ParseStringBody(Tail(Tail(t)), Append(acc, t[2]))
              ELSE JsonFail
    ELSE ParseStringBody(Tail(t), Append(acc, Head(t)))

\* the field of a rule that a key names
KeyName(k) ==
    CASE k = <<"n", "a", "m", "e">> -> "name"
      [] k = <<"k", "e", "y", "w", "o", "r", "d", "s">> -> "keywords"
      [] k = <<"r", "e", "g", "e", "x">> -> "regex"
      [] OTHER -> "other"

RECURSIVE ParseValue(_), ParseItems(_, _), ParseMembers(_, _)

\* after "[" or a comma: an item, then a comma or "]"
ParseItems(t, acc) ==
    LET item == ParseValue(t)
        u == SkipWs(item.rest)
    IN IF ~item.ok \/ u = <<>> THEN JsonFail
       ELSE IF Head(u) = "," THEN ParseItems(Tail(u), Append(acc, item.val))
       ELSE IF Head(u) = "]"
            THEN [ok |-> TRUE, val |-> Append(acc, item.val), rest |-> Tail(u)]
       ELSE JsonFail

\* after "{" or a comma: a key, a colon, a value, then a comma or "}"
ParseMembers(t, acc) ==
    LET u == SkipWs(t)
        key == IF u # <<>> /\ Head(u) = Quote THEN ParseStringBody(Tail(u), <<>>)
               ELSE JsonFail
        v == SkipWs(key.rest)
        val == IF key.ok /\ v # <<>> /\ Head(v) = ":" THEN ParseValue(Tail(v))
               ELSE JsonFail
        w == SkipWs(val.rest)
        obj == (KeyName(key.val) :> val.val) @@ acc
    IN IF ~val.ok \/ w = <<>> THEN JsonFail
       ELSE IF Head(w) = "," THEN ParseMembers(Tail(w), obj)
       ELSE IF Head(w) = "}" THEN [ok |-> TRUE, val |-> obj, rest |-> Tail(w)]
       ELSE JsonFail

ParseValue(t) ==
    LET u == SkipWs(t)
    IN IF u = <<>> THEN JsonFail
       ELSE IF Head(u) = Quote THEN ParseStringBody(Tail(u), <<>>)
       ELSE IF Head(u) = "["
            THEN IF SkipWs(Tail(u)) # <<>> /\ Head(SkipWs(Tail(u))) = "]"
                 THEN [ok |-> TRUE, val |-> <<>>, rest |-> Tail(SkipWs(Tail(u)))]
                 ELSE ParseItems(Tail(u), <<>>)
       ELSE IF Head(u) = "{"
            THEN IF SkipWs(Tail(u)) # <<>> /\ Head(SkipWs(Tail(u))) = "}"
                 THEN [ok |-> TRUE, val |-> <<>>, rest |-> Tail(SkipWs(Tail(u)))]
                 ELSE ParseMembers(Tail(u), <<>>)
       ELSE JsonFail

\* json.loads(text): [ok, val]; not ok when the text is no JSON document
json_loads(text) ==
    LET r == ParseValue(text)
    IN IF r.ok /\ SkipWs(r.rest) = <<>> THEN [ok |-> TRUE, val |-> r.val]
       ELSE [ok |-> FALSE, val |-> <<>>]

(***************************************************************************)
(* The script as one run (lines 112-242) and the session around it.        *)
(***************************************************************************)
NoFile == [kind |-> "none"]
Unreadable == [kind |-> "unreadable"]       \* try_read_csv raises on it
NoEdits == [cat |-> <<>>, deleted |-> {}]
NoSave == [session |-> 0]

\* st.session_state.category_rules, [] while the key is not set
RuleList == IF "category_rules" \in DOMAIN session_state
            THEN session_state.category_rules ELSE <<>>

\* the rule of lines 164-168 with the name kept as typed
MakeRuleUntrimmedName(inp) ==
    [name |-> IF Strip(inp.cat_name) # <<>> THEN inp.cat_name ELSE Nezarazeno,
     keywords |-> IF Strip(inp.keywords) # <<>>
                  THEN LET parts == Split(inp.keywords, ",")
                       IN [k \in DOMAIN parts |-> Strip(parts[k])]
                  ELSE <<>>,
     regex |-> Strip(inp.regex)]

\* the rule of lines 164-168 from the three text inputs
MakeRule(inp) ==
    [name |-> IF Strip(inp.cat_name) # <<>> THEN Strip(inp.cat_name) ELSE Nezarazeno,
     keywords |-> IF Strip(inp.keywords) # <<>>
                  THEN LET parts == Split(inp.keywords, ",")
                       IN [k \in DOMAIN parts |-> Strip(parts[k])]
                  ELSE <<>>,
     regex |-> Strip(inp.regex)]

\* the new rule put in front of the list
RulesAfterClickPrepend(rules, click, inp) ==
    CASE click = "add" -> <<MakeRule(inp)>> \o rules
      [] click = "clear" -> <<>>
      [] OTHER -> rules

\* lines 163-171: the rule list after this run's buttons
RulesAfterClick(rules, click, inp) ==
    CASE click = "add" -> Append(rules, MakeRule(inp))
      [] click = "clear" -> <<>>
      [] OTHER -> rules

\* the summaries fed with the table as it was before the editor
DataEditorResultUnused(data, e) == data

\* st.data_editor(data, ...): the table with the user's edits applied; the
\* user can change kategorie (the other columns are disabled) and delete rows
data_editor(data, e) ==
    LET RECURSIVE Go(_)
        Go(i) == IF i > Len(data) THEN <<>>
                 ELSE IF i \in e.deleted THEN Go(i + 1)
                 ELSE << IF i \in DOMAIN e.cat
                         THEN [data[i] EXCEPT !.kategorie = e.cat[i]]
                         ELSE data[i] >> \o Go(i + 1)
    IN Go(1)

\* data_edit.to_csv(buf, index=False): a header line and a line per row
to_csv(df) ==
    << <<"datum", "castka", "popis", "kategorie">> >>
    \o [i \in DOMAIN df |-> <<df[i].datum, df[i].castka, df[i].popis, df[i].kategorie>>]

\* One run of the script with f in the uploader, the editor's widget state
\* e, the button click (if any) and the three text inputs inp.
Run(f, e, click, inp) ==
    /\ uploaded' = f
    /\ IF f.kind = "none"
       THEN \* line 242: nothing but the hint is rendered
            /\ page' = [stage |-> "info"]
            /\ UNCHANGED <<session_state, added>>
            /\ edits' = NoEdits
       ELSE IF f.kind = "unreadable"
       THEN \* lines 121-123: st.error, st.stop
            /\ page' = [stage |-> "error"]
            /\ UNCHANGED <<session_state, added>>
            /\ edits' = NoEdits
       ELSE \* each value is computed once and bound, as the script binds it
            \E rules \in {RulesAfterClick(RuleList, click, inp)} :
            \E data \in {apply_rules(ensure_columns(f.df, f.mapping, TRUE), rules)} :
            \E data_edit \in {data_editor(data, e)} :
            \E cats \in category_summary(data_edit) :
               /\ session_state' = [category_rules |-> rules]
               /\ edits' = e
               /\ added' = CASE click = "add" -> Append(added, inp)
                              [] click = "clear" -> <<>>
                              [] OTHER -> added
               /\ page' = [stage |-> "rendered",
                           click |-> click,
                           data |-> data,
                           data_edit |-> data_edit,
                           total_income |-> total_income(data_edit),
                           total_exp |-> total_exp(data_edit),
                           balance |-> balance(data_edit),
                           cats |-> cats,
                           m |-> monthly_summary(data_edit),
                           csv |-> to_csv(data_edit),
                           rules_json |-> json_dumps(rules)]

\* the statement uploaded in the sessions followed: date, amount,
\* description and category columns
StatementDf ==
    << [date |-> <<"2", ".", "4", ".", YearTok>>, amount |-> <<"-", "1", "0">>,
        desc |-> <<"a", "B">>, direction |-> NaN, category |-> <<"J">>],
       [date |-> <<"13", ".", "2", ".", YearTok>>, amount |-> <<"-", "1">>,
        desc |-> <<"b">>, direction |-> NaN, category |-> <<"J">>],
       [date |-> <<"4", ".", "4", ".", YearTok>>, amount |-> <<"1", "1", ",", "1">>,
        desc |-> <<"x">>, direction |-> NaN, category |-> <<"J">>] >>

Statement ==
    [kind |-> "csv", df |-> StatementDf,
     mapping |-> [direction |-> FALSE, category |-> TRUE]]

\* what the user types into the three text inputs before an add click
TypedRules ==
    { [cat_name |-> <<" ">>, keywords |-> <<" ">>, regex |-> <<>>],
      [cat_name |-> <<"P", " ">>, keywords |-> <<" ", "b", ",", "x">>, regex |-> <<" ", "(">>],
      [cat_name |-> <<Quote, "K">>, keywords |-> <<",", "B", Backslash>>,
       regex |-> <<"a", "|", "x">>] }

NoInput == [cat_name |-> <<>>, keywords |-> <<>>, regex |-> <<>>]

UserCategory == <<"X">>

InitSession ==
    /\ session = 1
    /\ uploaded = NoFile
    /\ session_state = <<>>
    /\ edits = NoEdits
    /\ page = [stage |-> "info"]
    /\ added = <<>>
    /\ saved = NoSave

Init == InitSession /\ ar = Idle /\ rd = Idle /\ cell = Idle /\ ec = Idle /\ sm = Idle

\* the user picks a file in the uploader
Upload ==
    /\ uploaded = NoFile
    /\ \E f \in {Statement, Unreadable} : Run(f, NoEdits, "none", NoInput)
    /\ UNCHANGED <<session, saved, calls>>

\* the user removes the file from the uploader
RemoveFile ==
    /\ uploaded # NoFile
    /\ Run(NoFile, NoEdits, "none", NoInput)
    /\ UNCHANGED <<session, saved, calls>>

\* a rerun with no button clicked (any other widget interaction)
Rerun ==
    /\ Run(uploaded, edits, "none", NoInput)
    /\ UNCHANGED <<session, saved, calls>>

\* a click on the add button, the text inputs holding inp
AddRuleClick ==
    /\ page.stage = "rendered"
    /\ Len(RuleList) < MaxRules
    /\ \E inp \in TypedRules : Run(uploaded, edits, "add", inp)
    /\ UNCHANGED <<session, saved, calls>>

\* a click on the clear button
ClearClick ==
    /\ page.stage = "rendered"
    /\ Run(uploaded, edits, "clear", NoInput)
    /\ UNCHANGED <<session, saved, calls>>

\* the user retypes the category of a row in the editor
EditCategory ==
    /\ page.stage = "rendered"
    /\ \E i \in DOMAIN page.data \ edits.deleted :
          Run(uploaded, [edits EXCEPT !.cat = (i :> UserCategory) @@ @], "none", NoInput)
    /\ UNCHANGED <<session, saved, calls>>

\* the user deletes a row in the editor
DeleteRow ==
    /\ page.stage = "rendered"
    /\ \E i \in DOMAIN page.data \ edits.deleted :
          Run(uploaded, [edits EXCEPT !.deleted = @ \cup {i}], "none", NoInput)
    /\ UNCHANGED <<session, saved, calls>>

\* the browser tab is reloaded: a new session with a fresh session_state
NewSession ==
    /\ session < MaxSessions
    /\ session' = session + 1
    /\ uploaded' = NoFile
    /\ session_state' = <<>>
    /\ edits' = NoEdits
    /\ page' = [stage |-> "info"]
    /\ added' = <<>>
    /\ UNCHANGED <<saved, calls>>

Next ==
    \/ Upload \/ RemoveFile \/ Rerun \/ AddRuleClick \/ ClearClick
    \/ EditCategory \/ DeleteRow \/ NewSession

Spec == Init /\ [][Next]_vars

\* the rows of data the user has not deleted, and the category each one ends
\* with: the user's where the user retyped it
KeptRows == DOMAIN page.data \ edits.deleted
FinalCategory(i) ==
    IF i \in DOMAIN edits.cat THEN edits.cat[i] ELSE page.data[i].kategorie

\* the order-preserving numbering of the kept rows
KeptRow(k) == CHOOSE i \in KeptRows : Cardinality({j \in KeptRows : j < i}) = k - 1

\* C2: every rendered page shows totals, category breakdown, monthly trend
\* and CSV export computed from the edited table: each kept row counts with
\* the category the user gave it, whatever apply_rules or the CSV said.
C2_EditsReachSummaries ==
    page.stage = "rendered" =>
        /\ page.total_income = SumOver(page.data, KeptRows \cap Positive(page.data))
        /\ page.total_exp = NumNeg(SumOver(page.data, KeptRows \cap Negative(page.data)))
        /\ {page.cats[k] : k \in DOMAIN page.cats} =
              {[kategorie |-> c,
                value |-> NumNeg(SumOver(page.data,
                             {i \in KeptRows \cap Negative(page.data) : FinalCategory(i) = c}))] :
                 c \in {FinalCategory(i) : i \in KeptRows \cap Negative(page.data)}}
        /\ DOMAIN page.m = {MonthOf(page.data[i].datum) : i \in KeptRows}
        /\ \A mo \in DOMAIN page.m :
              page.m[mo].Saldo =
                 SumOver(page.data, {i \in KeptRows : MonthOf(page.data[i].datum) = mo})
        /\ Len(page.csv) = Cardinality(KeptRows) + 1
        /\ \A k \in 1..Cardinality(KeptRows) :
              page.csv[k + 1] = <<page.data[KeptRow(k)].datum, page.data[KeptRow(k)].castka,
                                  page.data[KeptRow(k)].popis, FinalCategory(KeptRow(k))>>

\* an expense row that a rule categorised and the user then retyped: the
\* breakdown and the export carry the user's category
C2_Witness ==
    /\ page.stage = "rendered"
    /\ \E i \in KeptRows \cap Negative(page.data) :
          /\ i \in DOMAIN edits.cat
          /\ page.data[i].kategorie \notin {edits.cat[i], StatementDf[i].category}
          /\ \E k \in DOMAIN page.cats : page.cats[k].kategorie = edits.cat[i]
          /\ \E k \in 2..Len(page.csv) : page.csv[k][4] = edits.cat[i]
    /\ edits.deleted # {}

\* the list holds the rules of the add clicks since the last clear, in order
C3_ListIsAddsSinceClear ==
    RuleList = [i \in DOMAIN added |-> MakeRule(added[i])]

\* what one step may do to the list
C3_Step ==
    LET list == RuleList
        list_after == RuleList'
        clicked == IF page'.stage = "rendered" THEN page'.click ELSE "none"
    IN /\ session' # session => list_after = <<>>
       /\ (session' = session /\ clicked = "none") => list_after = list
       /\ clicked = "add" =>
             /\ Len(list_after) = Len(list) + 1
             /\ SubSeq(list_after, 1, Len(list)) = list
       /\ clicked = "clear" => list_after = <<>>

\* C3: the rule list is empty when a session starts; it always equals the
\* rules added since the last clear, in the order added; a run without a
\* click leaves it as it is, an add click appends one rule, a clear click
\* empties it.
C3_SessionRuleList ==
    /\ RuleList = <<>>
    /\ [](C3_ListIsAddsSinceClear)
    /\ [][C3_Step]_vars

\* a second session holding two different rules after its second add click
C3_Witness ==
    /\ session = 2
    /\ page.stage = "rendered" /\ page.click = "add"
    /\ Len(RuleList) = 2 /\ RuleList[1] # RuleList[2]
    /\ Len(added) = 2

(***************************************************************************)
(* SpecExport: sessions in which the user also downloads the rules file.   *)
(***************************************************************************)
\* a click on the rules download button (line 237): the browser saves the
\* JSON text of the page; the click reruns the script
DownloadRules ==
    /\ page.stage = "rendered"
    /\ saved' = [session |-> session, text |-> page.rules_json, rules |-> RuleList]
    /\ Run(uploaded, edits, "none", NoInput)
    /\ UNCHANGED <<session, calls>>

NextExport ==
    \/ Upload \/ RemoveFile \/ Rerun \/ AddRuleClick \/ ClearClick
    \/ DownloadRules \/ NewSession

SpecExport == Init /\ [][NextExport]_vars

\* the rule lists one run of the script can leave, whatever the user does
\* before it: no click, an add click with some inputs, a clear click
ListsAfterOneRun ==
    {RulesAfterClick(RuleList, click, inp) :
        click \in {"none", "add", "clear"}, inp \in TypedRules}

\* C4 as claimed: in a later session the saved file can be loaded, the rule
\* list then being the exported list: one run of the script takes the rule
\* list to what the file holds.
C4_ReimportRestoresList ==
    (saved.session > 0 /\ session > saved.session /\ page.stage = "rendered")
    => json_loads(saved.text).val \in ListsAfterOneRun

\* C4 as amended: the downloaded file decodes to exactly the rule list that
\* was exported, and a later session starts from the empty list whatever
\* was exported: until a rule is added by hand the list stays empty.
C4_ExportOnly ==
    saved.session > 0 =>
        /\ json_loads(saved.text) = [ok |-> TRUE, val |-> saved.rules]
        /\ (session > saved.session /\ added = <<>>) => RuleList = <<>>

\* a later session, rendered with an empty list, holding a file of two
\* rules one of which has a quote and a backslash in it
C4_Witness ==
    /\ saved.session = 1 /\ session = 2
    /\ page.stage = "rendered"
    /\ RuleList = <<>>
    /\ Len(saved.rules) = 2
    /\ \E i \in 1..2 : Quote \in {saved.rules[i].name[k] : k \in DOMAIN saved.rules[i].name}
    /\ \E i \in 1..2 : \E j \in DOMAIN saved.rules[i].keywords :
          Backslash \in {saved.rules[i].keywords[j][k] : k \in DOMAIN saved.rules[i].keywords[j]}

\* the number of commas of a string
Commas(str) == Cardinality({i \in DOMAIN str : str[i] = ","})

\* C5: every element of the exported rule list is an object with exactly
\* name, keywords and regex; the name is non-empty and trimmed, Nezarazeno
\* for a blank input; the keywords are none for a blank input and otherwise
\* the trimmed comma-separated parts; the regex is the trimmed input.
C5_ExportedRuleShape ==
    page.stage = "rendered" =>
        LET ex == json_loads(page.rules_json)
        IN /\ ex.ok
           /\ Len(ex.val) = Len(added)
           /\ \A i \in DOMAIN ex.val :
                 LET rule == ex.val[i]
                     inp == added[i]
                     parts == Split(inp.keywords, ",")
                 IN /\ DOMAIN rule = {"name", "keywords", "regex"}
                    /\ rule.name # <<>>
                    /\ ~IsSpace(rule.name[1]) /\ ~IsSpace(rule.name[Len(rule.name)])
                    /\ rule.name = IF \A k \in DOMAIN inp.cat_name : IsSpace(inp.cat_name[k])
                                   THEN Nezarazeno ELSE Strip(inp.cat_name)
                    /\ IF \A k \in DOMAIN inp.keywords : IsSpace(inp.keywords[k])
                       THEN rule.keywords = <<>>
                       ELSE /\ Len(rule.keywords) = Commas(inp.keywords) + 1
                            /\ \A k \in DOMAIN rule.keywords :
                                  rule.keywords[k] = Strip(parts[k])
                    /\ rule.regex = Strip(inp.regex)

\* a page exporting a rule from a blank name beside one from a padded name
\* and padded keywords
C5_Witness ==
    /\ page.stage = "rendered"
    /\ Len(added) = 2
    /\ added[1].cat_name = <<" ">> /\ RuleList[1].name = Nezarazeno
    /\ added[2].cat_name = <<"P", " ">> /\ RuleList[2].name = <<"P">>
    /\ RuleList[2].keywords = << <<"b">>, <<"x">> >>
    /\ json_loads(page.rules_json).val = RuleList

====
